---- MODULE Spec2Model ----
(***************************************************************************)
(* anki2html: decoding of an Anki package (a zip archive holding a         *)
(* database and a media manifest) into rendered flashcards.                *)
(*                                                                         *)
(* Strings are sequences of atoms.  An atom stands for a run of characters *)
(* that no operation of the program splits: "/" is the path separator,     *)
(* ".." and "." are whole path segments, "{{" and "}}" are the template    *)
(* braces, "type:" the directive prefix, "[sound:" and "]" the brackets of *)
(* a sound reference, "<US>" the unit separator, "\n" a line break, and    *)
(* every other atom is a run of ordinary characters holding none of these. *)
(* Substring search and replacement on atoms then agree with the same      *)
(* operations on the characters.                                           *)
(***************************************************************************)
EXTENDS Integers, Sequences, FiniteSets, TLC

(***************************************************************************)
(* Bounds of the model.                                                    *)
(***************************************************************************)
\* longest archive (number of zip entries)
MaxEntries == 3
\* longest card relation
MaxCards == 2
\* largest magnitude of an epoch integer handed to the timestamp codecs
MaxEpoch == 1200

(***************************************************************************)
(* strings.* as the code uses them.                                        *)
(***************************************************************************)
HasPrefixAt(s, pat, i) ==
    /\ i + Len(pat) - 1 <= Len(s)
    /\ SubSeq(s, i, i + Len(pat) - 1) = pat

Contains(s, pat) == \E i \in 1..Len(s) : HasPrefixAt(s, pat, i)

RECURSIVE ReplaceFrom(_, _, _, _)
ReplaceFrom(s, old, new, i) ==
    IF i > Len(s) THEN <<>>
    ELSE IF HasPrefixAt(s, old, i)
         THEN new \o ReplaceFrom(s, old, new, i + Len(old))
         ELSE <<s[i]>> \o ReplaceFrom(s, old, new, i + 1)

\* a replacement that stops after the first occurrence (n = 1 instead of -1)
ReplaceFirstOnly(s, old, new) ==
    IF \E i \in 1..Len(s) : HasPrefixAt(s, old, i)
    THEN LET i == CHOOSE k \in 1..Len(s) :
                     /\ HasPrefixAt(s, old, k)
                     /\ \A j \in 1..(k - 1) : ~HasPrefixAt(s, old, j)
         IN SubSeq(s, 1, i - 1) \o new \o SubSeq(s, i + Len(old), Len(s))
    ELSE s

\* strings.Replace(s, old, new, -1) for a non-empty old: every
\* non-overlapping occurrence, found left to right, in one pass.
StringsReplace(s, old, new) == ReplaceFrom(s, old, new, 1)

RECURSIVE SplitFrom(_, _, _, _)
SplitFrom(s, sep, i, cur) ==
    IF i > Len(s) THEN <<cur>>
    ELSE IF s[i] = sep
         THEN <<cur>> \o SplitFrom(s, sep, i + 1, <<>>)
         ELSE SplitFrom(s, sep, i + 1, Append(cur, s[i]))

\* strings.Split(s, sep) for a one-atom separator: the empty string splits
\* into one empty piece.
StringsSplit(s, sep) == SplitFrom(s, sep, 1, <<>>)

(***************************************************************************)
(* path/filepath as the code uses it (Unix separators).                    *)
(***************************************************************************)
IsRooted(p) == Len(p) > 0 /\ p[1] = "/"

RECURSIVE CleanSegs(_, _, _, _)
CleanSegs(segs, i, rooted, out) ==
    IF i > Len(segs) THEN out
    ELSE LET e == segs[i] IN
         IF e = <<>> \/ e = <<".">>
         THEN CleanSegs(segs, i + 1, rooted, out)
         ELSE IF e = <<"..">>
              THEN IF Len(out) > 0 /\ out[Len(out)] # <<"..">>
                   THEN CleanSegs(segs, i + 1, rooted, SubSeq(out, 1, Len(out) - 1))
                   ELSE IF rooted
                        THEN CleanSegs(segs, i + 1, rooted, out)
                        ELSE CleanSegs(segs, i + 1, rooted, Append(out, e))
              ELSE CleanSegs(segs, i + 1, rooted, Append(out, e))

RECURSIVE JoinSegs(_, _)
JoinSegs(segs, i) ==
    IF i > Len(segs) THEN <<>>
    ELSE IF i = Len(segs) THEN segs[i]
         ELSE segs[i] \o <<"/">> \o JoinSegs(segs, i + 1)

\* the cleaned segments of a path
PathSegs(p) == CleanSegs(StringsSplit(p, "/"), 1, IsRooted(p), <<>>)

\* filepath.Clean
Clean(p) ==
    LET segs == PathSegs(p) IN
    IF IsRooted(p) THEN <<"/">> \o JoinSegs(segs, 1)
    ELSE IF segs = <<>> THEN <<".">>
         ELSE JoinSegs(segs, 1)

\* filepath.Join(a, b): empty elements are ignored, the rest joined with the
\* separator and cleaned.
JoinNoClean(a, b) ==
    IF a = <<>> THEN b
    ELSE IF b = <<>> THEN a
         ELSE a \o <<"/">> \o b

Join(a, b) ==
    IF a = <<>> /\ b = <<>> THEN <<>>
    ELSE Clean(JoinNoClean(a, b))

LastSlash(p) ==
    IF \E i \in 1..Len(p) : p[i] = "/"
    THEN CHOOSE i \in 1..Len(p) : p[i] = "/" /\ \A j \in (i + 1)..Len(p) : p[j] # "/"
    ELSE 0

\* filepath.Dir
Dir(p) == Clean(SubSeq(p, 1, LastSlash(p)))

(***************************************************************************)
(* The file system: a function from cleaned paths to what is there, a      *)
(* directory or a file's content.  Permissions are not modelled: every     *)
(* structurally possible operation succeeds.                               *)
(***************************************************************************)
DirMark == "<dir>"

IsDirAt(f, p) == p \in DOMAIN f /\ f[p] = DirMark
IsFileAt(f, p) == p \in DOMAIN f /\ f[p] # DirMark

\* q is p or lies below p (both cleaned)
Under(q, p) ==
    LET qs == PathSegs(q)
        ps == PathSegs(p)
    IN /\ IsRooted(q) = IsRooted(p)
       /\ Len(ps) <= Len(qs)
       /\ SubSeq(qs, 1, Len(ps)) = ps

\* os.MkdirAll, its error dropped as the callers drop it
RECURSIVE MkdirAll(_, _)
MkdirAll(f, p) ==
    IF p \in DOMAIN f THEN f
    ELSE LET par == Dir(p)
             f1 == IF par = p THEN f ELSE MkdirAll(f, par)
         IN IF par = p \/ IsDirAt(f1, par) THEN f1 @@ (p :> DirMark) ELSE f1

\* os.OpenFile(path, O_WRONLY|O_CREATE|O_TRUNC) and os.Create succeed
CanCreate(f, p) == ~IsDirAt(f, p) /\ IsDirAt(f, Dir(p))

WriteFile(f, p, content) == [q \in (DOMAIN f) \cup {p} |-> IF q = p THEN content ELSE f[q]]

\* os.RemoveAll
RemoveAll(f, p) == [q \in {r \in DOMAIN f : ~Under(r, p)} |-> f[q]]

\* os.Rename succeeds: the source exists, the target's directory exists, and
\* the target, if it exists, is of the source's kind (an empty directory for a
\* directory).
CanRename(f, from, to) ==
    /\ from \in DOMAIN f
    /\ IsDirAt(f, Dir(to))
    /\ \/ to \notin DOMAIN f
       \/ IsFileAt(f, to) /\ IsFileAt(f, from)
       \/ /\ IsDirAt(f, to) /\ IsDirAt(f, from)
          /\ \A q \in DOMAIN f : Under(q, to) => q = to
    /\ (from # to => ~Under(to, from))

Rebase(q, from, to) ==
    IF q = from THEN to
    ELSE Clean(to \o <<"/">> \o JoinSegs(SubSeq(PathSegs(q), Len(PathSegs(from)) + 1,
                                                 Len(PathSegs(q))), 1))

RenamePath(f, from, to) ==
    IF from = to THEN f
    ELSE LET moved == {q \in DOMAIN f : Under(q, from)}
             kept  == {q \in DOMAIN f : ~Under(q, from) /\ q # to}
             dest  == {Rebase(q, from, to) : q \in moved}
         IN [p \in kept \cup dest |->
                IF p \in dest
                THEN f[CHOOSE q \in moved : Rebase(q, from, to) = p]
                ELSE f[p]]

(***************************************************************************)
(* State.                                                                  *)
(***************************************************************************)
VARIABLES
    \* inputs: the package and the command line
    archive,    \* r.File: the zip entries, each [name, isDir, data]
    manifest,   \* what the "media" entry's JSON decodes to, or Malformed
    conf,       \* Configuration: [Input, Output, Title, Description]
    cols,       \* rows of table col, each [Models, Decks]
    notes,      \* rows of table notes, each [Id, Mid, Flds]
    cards,      \* rows of table cards, each [Nid, Did, Ord]
    dbTables,   \* the tables the database holds: a SELECT on another fails
    \* the run
    pc,         \* where generateHTMLPage is
    err,        \* the error it returned, "panic" for a runtime panic, or NoErr
    fs,         \* the file system
    entryIdx,   \* extractArchive: index of the next entry of r.File
    pending,    \* readDatabase: manifest keys the rename loop has yet to visit
    data,       \* DBData: [Title, Description, Cards]
    deckId,     \* makeQueries: deckId
    cardIdx,    \* makeQueries: index of the card the loop is at
    fmt,        \* makeQueries: fmt, the <<question, answer>> pair being resolved
    todo,       \* makeQueries: field names the substitution loop has yet to visit
    doc,        \* index.html: NoDoc, or Document(d) for the data d it was executed on
    \* the timestamp codecs
    tval,       \* the storage value handed to Scan
    stime,      \* a SecondsTime, as [sec, nsec]
    mstime,     \* a MilliSecondsTime, as [sec, nsec]
    tout,       \* what Value returned
    tpc         \* which codec step ran last

vars == <<archive, manifest, conf, cols, notes, cards, dbTables, pc, err, fs, entryIdx,
          pending, data, deckId, cardIdx, fmt, todo, doc, tval, stime, mstime, tout, tpc>>

inputVars == <<archive, manifest, conf, cols, notes, cards, dbTables>>
timeVars == <<tval, stime, mstime, tout, tpc>>

NoErr == "nil"
\* var data DBData: the zero value
ZeroData == [Title |-> "", Filepath |-> "", Description |-> "", Cards |-> <<>>]
\* index.html: whether the template was executed into it, and on what
NoDoc == [written |-> FALSE, data |-> ZeroData]
Document(d) == [written |-> TRUE, data |-> d]
\* a JSON text: whether it parses, and the object it parses to
Json(map) == [ok |-> TRUE, map |-> map]
Malformed == [ok |-> FALSE, map |-> <<>>]

MediaName == <<"media">>
DbName == <<"collection.anki2">>
IndexName == <<"index.html">>
\* ioutil.TempDir("", "anki2html"): a fresh directory under the system's
TempDir == <<"/", "tmp", "/", "anki2html">>

\* the file system before the run: the working directory, its parent, the
\* root and the system's temporary directory
InitFs == (<<".">> :> DirMark) @@ (<<"..">> :> DirMark) @@ (<<"/">> :> DirMark)
          @@ (<<"/", "tmp">> :> DirMark)

(***************************************************************************)
(* generateHTMLPage / readDatabase: the run from its start to the end of   *)
(* the media rename pass.                                                  *)
(***************************************************************************)
\* readDatabase returns an error (or panics): its deferred os.RemoveAll of
\* the temporary directory runs, generateHTMLPage returns the error and
\* main ends the process.
Fail(f, e) ==
    /\ pc' = "failed"
    /\ err' = e
    /\ fs' = RemoveAll(f, TempDir)

\* readDatabase up to the call of extractArchive: the temporary directory
\* and the output directory are created.
BeginRead ==
    /\ pc = "start"
    /\ fs' = MkdirAll(MkdirAll(fs, TempDir), Clean(conf.Output))
    /\ pc' = "extract"
    /\ entryIdx' = 1
    /\ UNCHANGED <<err, pending, data, deckId, cardIdx, fmt, todo, doc>>
    /\ UNCHANGED inputVars /\ UNCHANGED timeVars

\* where extractAndWriteFile puts entry e
EntryPath(e, metaDest, mediaDest) ==
    IF e.isDir THEN Join(metaDest, e.name)
    ELSE IF e.name = MediaName \/ e.name = DbName
         THEN Join(metaDest, e.name)
         ELSE Join(mediaDest, e.name)

\* one round of extractArchive's loop: extractAndWriteFile(f)
ExtractEntry ==
    /\ pc = "extract"
    /\ entryIdx <= Len(archive)
    /\ LET e == archive[entryIdx]
           path == EntryPath(e, TempDir, conf.Output)
       IN IF e.isDir
          THEN /\ fs' = MkdirAll(fs, path)
               /\ entryIdx' = entryIdx + 1
               /\ UNCHANGED <<pc, err>>
          ELSE LET f1 == MkdirAll(fs, Dir(path)) IN
               IF CanCreate(f1, path)
               THEN /\ fs' = WriteFile(f1, path, e.data)
                    /\ entryIdx' = entryIdx + 1
                    /\ UNCHANGED <<pc, err>>
               ELSE /\ Fail(f1, "open")
                    /\ UNCHANGED entryIdx
    /\ UNCHANGED <<pending, data, deckId, cardIdx, fmt, todo, doc>>
    /\ UNCHANGED inputVars /\ UNCHANGED timeVars

\* extractArchive has returned nil; readMediaFile reads the manifest
ReadMedia ==
    /\ pc = "extract"
    /\ entryIdx > Len(archive)
    /\ LET mediaFile == Join(TempDir, MediaName) IN
       IF mediaFile \notin DOMAIN fs
       THEN Fail(fs, "nomedia") /\ UNCHANGED pending
       ELSE IF IsDirAt(fs, mediaFile) \/ ~manifest.ok
            THEN Fail(fs, "badmanifest") /\ UNCHANGED pending
            ELSE /\ pending' = DOMAIN manifest.map
                 /\ pc' = "rename"
                 /\ UNCHANGED <<err, fs>>
    /\ UNCHANGED <<entryIdx, data, deckId, cardIdx, fmt, todo, doc>>
    /\ UNCHANGED inputVars /\ UNCHANGED timeVars

\* the check readDatabase makes on a rename target
IsMalicious(to) ==
    \/ Len(to) > 0 /\ to[1] = "/"
    \/ Len(to) > 2 /\ to[1] = ".." /\ to[2] = "/"

\* the target readDatabase computes for a manifest entry
RenameTarget(output, original) == Join(output, original)

\* the body of the rename loop for one manifest entry: the file system it
\* leaves and the error it returns
RenameStep(f, filename) ==
    LET from == Join(conf.Output, filename)
        to == RenameTarget(conf.Output, manifest.map[filename])
    IN IF IsMalicious(to) THEN [fs |-> f, err |-> "malicious"]
       ELSE IF ~CanRename(f, from, to) THEN [fs |-> f, err |-> "rename"]
            ELSE [fs |-> RenamePath(f, from, to), err |-> NoErr]

\* one round of the rename loop; a Go map is ranged over in no fixed order
RenameEntry ==
    /\ pc = "rename"
    /\ \E filename \in pending :
         LET r == RenameStep(fs, filename)
         IN IF r.err # NoErr
            THEN Fail(fs, r.err) /\ UNCHANGED pending
            ELSE /\ fs' = r.fs
                 /\ pending' = pending \ {filename}
                 /\ UNCHANGED <<pc, err>>
    /\ UNCHANGED <<entryIdx, data, deckId, cardIdx, fmt, todo, doc>>
    /\ UNCHANGED inputVars /\ UNCHANGED timeVars

(***************************************************************************)
(* strconv.Atoi on a string of one-character atoms.                        *)
(***************************************************************************)
Digits == <<"0", "1", "2", "3", "4", "5", "6", "7", "8", "9">>

IsDigit(c) == \E i \in 1..10 : Digits[i] = c
DigitVal(c) == (CHOOSE i \in 1..10 : Digits[i] = c) - 1

Unsigned(s) == IF Len(s) > 0 /\ s[1] \in {"+", "-"} THEN Tail(s) ELSE s

AtoiOk(s) == Len(Unsigned(s)) > 0 /\ \A i \in 1..Len(Unsigned(s)) : IsDigit(Unsigned(s)[i])

RECURSIVE DigitsVal(_, _)
DigitsVal(s, n) == IF n = 0 THEN 0 ELSE 10 * DigitsVal(s, n - 1) + DigitVal(s[n])

AtoiVal(s) ==
    IF Len(s) > 0 /\ s[1] = "-"
    THEN 0 - DigitsVal(Unsigned(s), Len(Unsigned(s)))
    ELSE DigitsVal(Unsigned(s), Len(Unsigned(s)))

(***************************************************************************)
(* makeQueries: the lookup tables built from the collection row and the    *)
(* notes.  A Go map answers a missing key with the zero value.  The blobs  *)
(* of the model hold no two keys with the same integer value.              *)
(***************************************************************************)
EmptyString == <<>>
\* the separator of a note's field values, 0x1F
UnitSep == "<US>"

KeyOf(blob, id) == CHOOSE k \in DOMAIN blob : AtoiOk(k) /\ AtoiVal(k) = id
HasKey(blob, id) == \E k \in DOMAIN blob : AtoiOk(k) /\ AtoiVal(k) = id

\* decksInfo[id]
DecksInfo(decks, id) == IF HasKey(decks, id) THEN decks[KeyOf(decks, id)].name ELSE ""

\* css[mid]
CssOf(models, mid) == IF HasKey(models, mid) THEN models[KeyOf(models, mid)].css ELSE ""

\* the last index in S: a later row replaces an earlier one under the same key
Last(S) == CHOOSE i \in S : \A j \in S : j <= i

\* fieldReplacements[mid]: field name -> ord, a later declaration of a name
\* replacing an earlier one
FieldReplacements(models, mid) ==
    IF ~HasKey(models, mid) THEN <<>>
    ELSE LET flds == models[KeyOf(models, mid)].flds
             names == {flds[i].name : i \in 1..Len(flds)}
         IN [n \in names |-> flds[Last({i \in 1..Len(flds) : flds[i].name = n})].ord]

\* templates[mid][ord]: the <<qfmt, afmt>> pair
Templates(models, mid, ord) ==
    IF ~HasKey(models, mid) THEN <<EmptyString, EmptyString>>
    ELSE LET tmpls == models[KeyOf(models, mid)].tmpls
             at == {i \in 1..Len(tmpls) : tmpls[i].ord = ord}
         IN IF at # {}
            THEN <<tmpls[Last(at)].qfmt, tmpls[Last(at)].afmt>>
            ELSE <<EmptyString, EmptyString>>

HasNote(ns, nid) == \E i \in 1..Len(ns) : ns[i].Id = nid

\* nid2mid[nid]
Nid2Mid(ns, nid) ==
    IF HasNote(ns, nid) THEN ns[Last({i \in 1..Len(ns) : ns[i].Id = nid})].Mid ELSE 0

\* nid2flds[nid]
Nid2Flds(ns, nid) ==
    IF HasNote(ns, nid) THEN ns[Last({i \in 1..Len(ns) : ns[i].Id = nid})].Flds
    ELSE EmptyString

(***************************************************************************)
(* makeQueries: what can go wrong while the blobs are parsed and the       *)
(* tables built.  Each table is built by a loop over a Go map, which ends  *)
(* at the first entry it cannot take: any such entry can be that one.      *)
(***************************************************************************)
BadKey(blob) == \E k \in DOMAIN blob : ~AtoiOk(k)

DeckBad(d) == "name" \notin DOMAIN d
CssBad(m) == "css" \notin DOMAIN m
FldsBad(m) ==
    \/ "flds" \notin DOMAIN m
    \/ \E i \in 1..Len(m.flds) : "ord" \notin DOMAIN m.flds[i] \/ "name" \notin DOMAIN m.flds[i]
TmplsBad(m) ==
    \/ "tmpls" \notin DOMAIN m
    \/ \E i \in 1..Len(m.tmpls) :
          \/ "qfmt" \notin DOMAIN m.tmpls[i]
          \/ "afmt" \notin DOMAIN m.tmpls[i]
          \/ "ord" \notin DOMAIN m.tmpls[i]

\* how a loop that parses each key and asserts each value's shape can end
LoopOutcomes(badKey, badShape) ==
    (IF badKey THEN {"atoi"} ELSE {}) \cup (IF badShape THEN {"panic"} ELSE {})

DecksLoop(decks) == LoopOutcomes(BadKey(decks), \E k \in DOMAIN decks : DeckBad(decks[k]))
CssLoop(models) == LoopOutcomes(BadKey(models), \E k \in DOMAIN models : CssBad(models[k]))

ParseOutcomes(models, decks) ==
    IF ~models.ok \/ ~decks.ok THEN {"json"}
    ELSE IF DecksLoop(decks.map) # {} THEN DecksLoop(decks.map)
    ELSE IF CssLoop(models.map) # {} THEN CssLoop(models.map)
    ELSE IF \E k \in DOMAIN models.map : FldsBad(models.map[k]) THEN {"panic"}
    ELSE IF \E k \in DOMAIN models.map : TmplsBad(models.map[k]) THEN {"panic"}
    ELSE {NoErr}

(***************************************************************************)
(* makeQueries: the substitutions of one card.                             *)
(***************************************************************************)
\* input: the fixed answer-input markup
InputMarkup == <<"<input type='text' placeholder='solution' class='type' />">>

FieldToken(fieldname) == <<"{{">> \o fieldname \o <<"}}">>
TypeToken(fieldname) == <<"{{", "type:">> \o fieldname \o <<"}}">>
FrontSideToken == <<"{{", "FrontSide", "}}">>

\* the body of the loop over fieldReplacements[mid], for one field
SubstituteOne(f, fieldname, value) ==
    LET q1 == StringsReplace(f[1], FieldToken(fieldname), value)
        a1 == StringsReplace(f[2], FieldToken(fieldname), value)
        q2 == StringsReplace(q1, TypeToken(fieldname), InputMarkup)
        a2 == StringsReplace(a1, TypeToken(fieldname), InputMarkup)
        a3 == StringsReplace(a2, FrontSideToken, q2)
    IN <<q2, a3>>

\* AUDIO_ELEMENT with $1 expanded to the captured text
AudioOpen == "<audio controls><source src=\""
AudioMid == "\" type=\"audio/3gpp\"><source src=\""
AudioClose == ".\" type=\"audio/ogg\"> Your browser does not support the <code>audio</code> element.</audio>"

AudioElement(name) == <<AudioOpen>> \o name \o <<AudioMid>> \o name \o <<AudioClose>>

SoundOpen == "[sound:"
SoundClose == "]"
NewLine == "\n"

\* where a match of \[sound:(.+)\] that starts at i can end: at a closing
\* bracket with at least one atom, and no line break, before it
MatchEnds(s, i) ==
    {j \in (i + 2)..Len(s) : s[j] = SoundClose /\ \A k \in (i + 1)..(j - 1) : s[k] # NewLine}

Max(S) == CHOOSE x \in S : \A y \in S : y <= x
\* (.+) is greedy: the match ends at the last closing bracket of the line
MatchEnd(s, i) == Max(MatchEnds(s, i))

RECURSIVE ReplaceAllSound(_, _)
ReplaceAllSound(s, i) ==
    IF i > Len(s) THEN <<>>
    ELSE IF s[i] = SoundOpen /\ MatchEnds(s, i) # {}
         THEN AudioElement(SubSeq(s, i + 1, MatchEnd(s, i) - 1))
              \o ReplaceAllSound(s, MatchEnd(s, i) + 1)
         ELSE <<s[i]>> \o ReplaceAllSound(s, i + 1)

\* re.ReplaceAllString(s, AUDIO_ELEMENT)
RewriteSound(s) == ReplaceAllSound(s, 1)

(***************************************************************************)
(* makeQueries, step by step.                                              *)
(***************************************************************************)
DbPath == Join(TempDir, DbName)

\* the rows a SELECT yields: none when the database file is not the
\* package's database or holds no such table (the errors of db.Select are
\* dropped, the slice stays empty)
Rows(f, name, table) ==
    IF IsFileAt(f, DbPath) /\ f[DbPath] = "db" /\ name \in dbTables THEN table ELSE <<>>

\* notes, as makeQueries holds it once its checks have passed
NotesRead == IF "notes" \in dbTables THEN notes ELSE <<>>

\* the rename loop has ended: lines 376-381 of readDatabase, then makeQueries
\* up to its two checks.  Opening a missing database file creates it.
LoadAndCheck ==
    /\ pc = "rename"
    /\ pending = {}
    /\ LET f1 == IF DbPath \in DOMAIN fs \/ ~IsDirAt(fs, Dir(DbPath)) THEN fs
                 ELSE WriteFile(fs, DbPath, "emptydb")
       IN IF Len(Rows(f1, "col", cols)) # 1
          THEN Fail(f1, "collections")
          ELSE IF Len(Rows(f1, "cards", cards)) = 0
               THEN Fail(f1, "nocards")
               ELSE /\ pc' = "parse"
                    /\ fs' = f1
                    /\ UNCHANGED err
    /\ data' = [data EXCEPT !.Filepath = conf.Input]
    /\ UNCHANGED <<entryIdx, pending, deckId, cardIdx, fmt, todo, doc>>
    /\ UNCHANGED inputVars /\ UNCHANGED timeVars

\* the title after lines 138-140
TitleOverride(title, confTitle) == IF confTitle # "" THEN confTitle ELSE title
DescriptionOverride(d, confDescription) == IF confDescription # "" THEN confDescription ELSE d

\* the two json.Unmarshal calls, the overrides and the table loops
ParseConfig ==
    /\ pc = "parse"
    /\ \E outcome \in ParseOutcomes(cols[1].Models, cols[1].Decks) :
         /\ data' = IF outcome = "json" THEN data
                    ELSE [data EXCEPT !.Title = TitleOverride(data.Title, conf.Title),
                                      !.Description = DescriptionOverride(data.Description,
                                                                          conf.Description)]
         /\ IF outcome = NoErr
            THEN /\ pc' = "cards"
                 /\ deckId' = -1
                 /\ cardIdx' = 1
                 /\ UNCHANGED <<err, fs>>
            ELSE /\ Fail(fs, outcome)
                 /\ UNCHANGED <<deckId, cardIdx>>
    /\ UNCHANGED <<entryIdx, pending, fmt, todo, doc>>
    /\ UNCHANGED inputVars /\ UNCHANGED timeVars

CardMid(c) == Nid2Mid(NotesRead, c.Nid)
CardFields(c) == StringsSplit(Nid2Flds(NotesRead, c.Nid), UnitSep)

\* the head of the card loop's body: mid, fields and fmt
BeginCard ==
    /\ pc = "cards"
    /\ cardIdx <= Len(cards)
    /\ LET c == cards[cardIdx] IN
         /\ fmt' = Templates(cols[1].Models.map, CardMid(c), c.Ord)
         /\ todo' = DOMAIN FieldReplacements(cols[1].Models.map, CardMid(c))
    /\ pc' = "fields"
    /\ UNCHANGED <<err, fs, entryIdx, pending, data, deckId, cardIdx, doc>>
    /\ UNCHANGED inputVars /\ UNCHANGED timeVars

\* fields[index] is an index into the note's field list
InRange(index, fields) == 0 <= index /\ index < Len(fields)

\* one round of the loop over fieldReplacements[mid], ranged over in no fixed
\* order; an index outside the field list is a runtime panic
SubstituteField ==
    /\ pc = "fields"
    /\ \E fieldname \in todo :
         LET c == cards[cardIdx]
             index == FieldReplacements(cols[1].Models.map, CardMid(c))[fieldname]
             fields == CardFields(c)
         IN IF InRange(index, fields)
            THEN /\ fmt' = SubstituteOne(fmt, fieldname, fields[index + 1])
                 /\ todo' = todo \ {fieldname}
                 /\ UNCHANGED <<pc, err, fs>>
            ELSE /\ Fail(fs, "panic")
                 /\ UNCHANGED <<fmt, todo>>
    /\ UNCHANGED <<entryIdx, pending, data, deckId, cardIdx, doc>>
    /\ UNCHANGED inputVars /\ UNCHANGED timeVars

\* the check of line 245
MultipleDecks(lastDeck, did, title) == lastDeck # -1 /\ lastDeck # did /\ title = ""

\* an emission that puts the new triple first
PrependCard(cs, triple) == <<triple>> \o cs

\* data.Cards = append(data.Cards, triple)
AppendCard(cs, triple) == Append(cs, triple)

\* the rest of the card loop's body: the deck check, the sound rewriting and
\* the append
FinishCard ==
    /\ pc = "fields"
    /\ todo = {}
    /\ LET c == cards[cardIdx] IN
       IF MultipleDecks(deckId, c.Did, data.Title)
       THEN /\ Fail(fs, "multidecks")
            /\ UNCHANGED <<fmt, deckId, data, cardIdx>>
       ELSE LET q == RewriteSound(fmt[1])
                a == RewriteSound(fmt[2])
            IN /\ fmt' = <<q, a>>
               /\ deckId' = c.Did
               /\ data' = [data EXCEPT !.Cards =
                              AppendCard(@, <<CssOf(cols[1].Models.map, CardMid(c)), q, a>>)]
               /\ cardIdx' = cardIdx + 1
               /\ pc' = "cards"
               /\ UNCHANGED <<err, fs>>
    /\ UNCHANGED <<entryIdx, pending, todo, doc>>
    /\ UNCHANGED inputVars /\ UNCHANGED timeVars

\* the title makeQueries ends with (line 257)
FinalTitle(title, deckName) == deckName

\* the card loop has ended: makeQueries sets the title and returns nil, and
\* readDatabase returns nil, its deferred os.RemoveAll running
SetTitle ==
    /\ pc = "cards"
    /\ cardIdx > Len(cards)
    /\ data' = [data EXCEPT !.Title = FinalTitle(@, DecksInfo(cols[1].Decks.map, deckId))]
    /\ fs' = RemoveAll(fs, TempDir)
    /\ pc' = "render"
    /\ UNCHANGED <<err, entryIdx, pending, deckId, cardIdx, fmt, todo, doc>>
    /\ UNCHANGED inputVars /\ UNCHANGED timeVars

\* generateHTMLPage after readDatabase: index.html is created in the output
\* directory and the template executed into it
WriteDocument ==
    /\ pc = "render"
    /\ LET path == Join(conf.Output, IndexName) IN
       IF CanCreate(fs, path)
       THEN /\ fs' = WriteFile(fs, path, "document")
            /\ doc' = Document(data)
            /\ pc' = "done"
            /\ UNCHANGED err
       ELSE /\ pc' = "failed"
            /\ err' = "create"
            /\ UNCHANGED <<fs, doc>>
    /\ UNCHANGED <<entryIdx, pending, data, deckId, cardIdx, fmt, todo>>
    /\ UNCHANGED inputVars /\ UNCHANGED timeVars

(***************************************************************************)
(* The timestamp codecs of database_model.go.  A time.Time is held as its  *)
(* Unix seconds and the nanoseconds within the second.                     *)
(***************************************************************************)
Billion == 1000000000
Thousand == 1000

\* Go's integer division truncates toward zero
Quo(a, b) == IF a >= 0 THEN a \div b ELSE 0 - ((0 - a) \div b)
Rem(a, b) == a - b * Quo(a, b)

\* time.Unix(sec, nsec): nsec outside [0, 1e9) is carried into sec
TimeUnix(sec, nsec) ==
    IF nsec < 0 \/ nsec >= Billion
    THEN LET n == Quo(nsec, Billion)
             s1 == sec + n
             n1 == nsec - n * Billion
         IN IF n1 < 0 THEN [sec |-> s1 - 1, nsec |-> n1 + Billion]
            ELSE [sec |-> s1, nsec |-> n1]
    ELSE [sec |-> sec, nsec |-> nsec]

\* Time.Unix() and Time.UnixNano()
UnixOf(t) == t.sec
UnixNanoOf(t) == t.sec * Billion + t.nsec

\* the kinds of storage value Scan's type switch takes
ScanKinds == {"int64", "float64", "string", "time", "nil"}

\* a Scan whose type switch has no case for nil
ScanFailsOnNil(val) ==
    \/ val.kind \notin {"int64", "float64", "string", "time"}
    \/ val.kind = "string" /\ ~AtoiOk(val.s)

\* Scan returns an error
ScanFails(val) ==
    \/ val.kind \notin ScanKinds
    \/ val.kind = "string" /\ ~AtoiOk(val.s)

\* secs of SecondsTime.Scan
ScanSecs(val) ==
    CASE val.kind = "int64" -> val.v
      [] val.kind = "float64" -> Quo(val.halves, 2)
      [] val.kind = "string" -> AtoiVal(val.s)
      [] val.kind = "time" -> UnixOf(val.t)
      [] val.kind = "nil" -> 0

\* msecs of MilliSecondsTime.Scan
ScanMsecs(val) ==
    CASE val.kind = "int64" -> val.v
      [] val.kind = "float64" -> Quo(val.halves, 2)
      [] val.kind = "string" -> AtoiVal(val.s)
      [] val.kind = "time" -> UnixNanoOf(val.t)
      [] val.kind = "nil" -> 0

\* the time SecondsTime.Scan stores
SecondsTimeOf(secs) == TimeUnix(secs, 0)

\* the time MilliSecondsTime.Scan stores
MilliSecondsTimeOf(msecs) == TimeUnix(Quo(msecs, Thousand), Rem(msecs, Thousand))

\* SecondsTime.Value and MilliSecondsTime.Value
SecondsValue(t) == UnixOf(t)
MilliSecondsValue(t) == UnixNanoOf(t)

SecondsScan ==
    /\ tpc = "idle"
    /\ IF ScanFails(tval)
       THEN tpc' = "secondsScanError" /\ UNCHANGED stime
       ELSE tpc' = "secondsScanned" /\ stime' = SecondsTimeOf(ScanSecs(tval))
    /\ UNCHANGED <<tval, mstime, tout>>
    /\ UNCHANGED inputVars
    /\ UNCHANGED <<pc, err, fs, entryIdx, pending, data, deckId, cardIdx, fmt, todo, doc>>

SecondsTimeValue ==
    /\ tpc = "secondsScanned"
    /\ tout' = SecondsValue(stime)
    /\ tpc' = "secondsValued"
    /\ UNCHANGED <<tval, stime, mstime>>
    /\ UNCHANGED inputVars
    /\ UNCHANGED <<pc, err, fs, entryIdx, pending, data, deckId, cardIdx, fmt, todo, doc>>

MilliSecondsScan ==
    /\ tpc = "idle"
    /\ IF ScanFails(tval)
       THEN tpc' = "milliScanError" /\ UNCHANGED mstime
       ELSE tpc' = "milliScanned" /\ mstime' = MilliSecondsTimeOf(ScanMsecs(tval))
    /\ UNCHANGED <<tval, stime, tout>>
    /\ UNCHANGED inputVars
    /\ UNCHANGED <<pc, err, fs, entryIdx, pending, data, deckId, cardIdx, fmt, todo, doc>>

MilliSecondsTimeValue ==
    /\ tpc = "milliScanned"
    /\ tout' = MilliSecondsValue(mstime)
    /\ tpc' = "milliValued"
    /\ UNCHANGED <<tval, stime, mstime>>
    /\ UNCHANGED inputVars
    /\ UNCHANGED <<pc, err, fs, entryIdx, pending, data, deckId, cardIdx, fmt, todo, doc>>

(***************************************************************************)
(* The inputs the model draws from.                                        *)
(***************************************************************************)
SeqsUpTo(S, n) == UNION {[1..k -> S] : k \in 0..n}

EMedia == [name |-> MediaName, isDir |-> FALSE, data |-> "manifest"]
EDb == [name |-> DbName, isDir |-> FALSE, data |-> "db"]
EFile0 == [name |-> <<"0">>, isDir |-> FALSE, data |-> "f0"]
EFile1 == [name |-> <<"1">>, isDir |-> FALSE, data |-> "f1"]
ETraversal == [name |-> <<"..", "/", "..", "/", "etc", "/", "passwd">>, isDir |-> FALSE,
               data |-> "evil"]
EAbsolute == [name |-> <<"/", "etc", "/", "passwd">>, isDir |-> FALSE, data |-> "evil"]
EDir == [name |-> <<"d", "/">>, isDir |-> TRUE, data |-> ""]
EDirTraversal == [name |-> <<"..", "/", "..", "/", "x", "/">>, isDir |-> TRUE, data |-> ""]

Entries == {EMedia, EDb, EFile0, EFile1, ETraversal, EAbsolute, EDir, EDirTraversal}

Archives == SeqsUpTo(Entries, MaxEntries)

Manifests ==
    { Malformed,
      Json(<<>>),
      Json(<<"0">> :> <<"a.png">>),
      Json(<<"0">> :> <<"..", "/", "x.png">>),
      Json(<<"0">> :> <<"..", "/", "..", "/", "etc", "/", "passwd">>),
      Json(<<"0">> :> <<"/", "etc", "/", "passwd">>),
      Json((<<"0">> :> <<"1">>) @@ (<<"1">> :> <<"0">>)),
      Json((<<"0">> :> <<"a.png">>) @@ (<<"1">> :> <<"a.png">>)) }

Outputs == {<<"out">>, <<"/", "srv", "/", "out">>}

Front == <<"Front">>
Back == <<"Back">>

BasicFlds == <<[name |-> Front, ord |-> 0], [name |-> Back, ord |-> 1]>>

BasicTmpls ==
    << [ord |-> 0,
        qfmt |-> <<"{{", "Front", "}}">>,
        afmt |-> <<"{{", "FrontSide", "}}", "<hr>", "{{", "Back", "}}">>],
       [ord |-> 1,
        qfmt |-> <<"{{", "Front", "}}", " ", "{{", "type:", "Front", "}}">>,
        afmt |-> <<"{{", "FrontSide", "}}", "{{", "Front", "}}", "[sound:", "bell.mp3", "]">>],
       [ord |-> 2,
        qfmt |-> <<"{{", "{{", "Front", "}}", "}}">>,
        afmt |-> <<"{{", "FrontSide", "}}">>] >>

ModelsBlob ==
    (<<"1">> :> [css |-> "css1", flds |-> BasicFlds, tmpls |-> BasicTmpls])
    @@ (<<"2">> :> [css |-> "css2", flds |-> <<>>,
                    tmpls |-> << [ord |-> 0, qfmt |-> <<"Q">>,
                                  afmt |-> <<"{{", "FrontSide", "}}">>] >>])
    @@ (<<"3">> :> [css |-> "css3",
                    flds |-> <<[name |-> Front, ord |-> 0], [name |-> Back, ord |-> 2]>>,
                    tmpls |-> BasicTmpls])

DecksBlob == (<<"1">> :> [name |-> "Deck1"]) @@ (<<"2">> :> [name |-> "Deck2"])

TheCollection == [Models |-> Json(ModelsBlob), Decks |-> Json(DecksBlob)]

\* blobs that cannot be taken: a key that is no integer, a value without an
\* expected field
GoodModel == [css |-> "css1", flds |-> BasicFlds, tmpls |-> BasicTmpls]

DecksBadKey == (<<"x">> :> [name |-> "Deck1"])
DecksNoName == (<<"1">> :> [id |-> 1])
ModelsBadKey == (<<"1", "x">> :> GoodModel)
ModelsNoCss == (<<"1">> :> [flds |-> BasicFlds, tmpls |-> BasicTmpls])
ModelsNoFlds == (<<"1">> :> [css |-> "css1", tmpls |-> BasicTmpls])
ModelsNoTmpls == (<<"1">> :> [css |-> "css1", flds |-> BasicFlds])
ModelsFieldNoOrd ==
    (<<"1">> :> [css |-> "css1", flds |-> <<[name |-> Front]>>, tmpls |-> BasicTmpls])
ModelsTmplNoOrd ==
    (<<"1">> :> [css |-> "css1", flds |-> BasicFlds,
                 tmpls |-> <<[qfmt |-> <<"Q">>, afmt |-> <<"A">>]>>])
\* a bad key next to a value of the wrong shape: the loop can meet either first
DecksBadKeyAndName == (<<"x">> :> [name |-> "Deck1"]) @@ (<<"1">> :> [id |-> 1])

ModelsBlobs ==
    { Malformed, Json(ModelsBlob), Json(ModelsBadKey), Json(ModelsNoCss), Json(ModelsNoFlds),
      Json(ModelsNoTmpls), Json(ModelsFieldNoOrd), Json(ModelsTmplNoOrd) }

DecksBlobs ==
    { Malformed, Json(DecksBlob), Json(DecksBadKey), Json(DecksNoName),
      Json(DecksBadKeyAndName) }

Collections == [Models : ModelsBlobs, Decks : DecksBlobs]

TheNotes ==
    << [Id |-> 1, Mid |-> 1, Flds |-> <<"Q", UnitSep, "A">>],
       [Id |-> 2, Mid |-> 1, Flds |-> <<"{{", "Back", "}}", UnitSep, "A">>],
       [Id |-> 3, Mid |-> 1, Flds |-> <<"[sound:", "bell.mp3", "]", UnitSep, "A">>],
       [Id |-> 4, Mid |-> 1, Flds |-> <<"[sound:", "a.mp3", "]", UnitSep,
                                        "[sound:", "b.mp3", "]">>],
       [Id |-> 5, Mid |-> 2, Flds |-> <<"Q">>],
       [Id |-> 6, Mid |-> 3, Flds |-> <<"Q", UnitSep, "A">>],
       [Id |-> 7, Mid |-> 9, Flds |-> <<"Q", UnitSep, "A">>],
       [Id |-> 8, Mid |-> 1, Flds |-> <<"Back", UnitSep, "A">>] >>

\* the (note id, template ordinal) pairs of the cards: note 9 is no note,
\* ordinal 5 no template
CardContents ==
    { <<1, 0>>, <<1, 1>>, <<2, 0>>, <<3, 0>>, <<4, 0>>, <<5, 0>>, <<6, 0>>, <<7, 0>>,
      <<8, 2>>, <<9, 0>>, <<1, 5>> }

DeckIds == {-1, 1, 2}

\* the card rows: every content in deck 1, the first also in the other decks
CardRows ==
    {[Nid |-> nc[1], Ord |-> nc[2], Did |-> 1] : nc \in CardContents}
    \cup {[Nid |-> 1, Ord |-> 0, Did |-> d] : d \in DeckIds}

Titles == {"", "My title"}

TimeValue(kind, v, halves, str, t) == [kind |-> kind, v |-> v, halves |-> halves, s |-> str, t |-> t]

ZeroTime == [sec |-> 0, nsec |-> 0]
\* what a destination timestamp holds before Scan
PriorTimes == {ZeroTime, [sec |-> 7, nsec |-> 0]}

TimeVals ==
    {TimeValue("int64", n, 0, <<>>, ZeroTime) : n \in (0 - MaxEpoch)..MaxEpoch}
    \cup {TimeValue("float64", 0, h, <<>>, ZeroTime) : h \in {-3, 3, 2001}}
    \cup {TimeValue("string", 0, 0, str, ZeroTime) :
              str \in {<<"4", "2">>, <<"-", "7">>, <<"x">>, <<>>, <<"1", "0", "0", "1">>}}
    \cup {TimeValue("time", 0, 0, <<>>, tm) : tm \in {[sec |-> 0, nsec |-> 500], ZeroTime}}
    \cup {TimeValue("nil", 0, 0, <<>>, ZeroTime), TimeValue("bytes", 0, 0, <<>>, ZeroTime)}

(***************************************************************************)
(* Specifications.                                                         *)
(***************************************************************************)
RunInit ==
    /\ pc = "start"
    /\ err = NoErr
    /\ fs = InitFs
    /\ entryIdx = 1
    /\ pending = {}
    /\ data = ZeroData
    /\ deckId = -1
    /\ cardIdx = 1
    /\ fmt = <<EmptyString, EmptyString>>
    /\ todo = {}
    /\ doc = NoDoc

TimeOff ==
    /\ tval = TimeValue("nil", 0, 0, <<>>, ZeroTime)
    /\ stime = ZeroTime
    /\ mstime = ZeroTime
    /\ tout = 0
    /\ tpc = "off"

Holds(a, e) == \E i \in 1..Len(a) : a[i] = e

\* the numbers of collection rows and of card rows of the small databases
SmallDbs == { <<1, 1>>, <<1, 0>>, <<0, 1>>, <<2, 1>> }

AllTables == {"col", "notes", "cards"}
\* the tables of the small databases: all, or all but notes
TableSets == {AllTables, {"col", "cards"}}

\* any package, a small database; the manifest and the database vary only
\* where the archive holds the entry they are read from
Init ==
    /\ archive \in Archives
    /\ manifest \in IF Holds(archive, EMedia) THEN Manifests ELSE {Malformed}
    /\ conf \in [Input : {"deck.apkg"}, Output : Outputs, Title : {""}, Description : {""}]
    /\ \E db \in IF Holds(archive, EDb) THEN SmallDbs ELSE {<<1, 1>>} :
          /\ cols = [i \in 1..db[1] |-> TheCollection]
          /\ cards = [i \in 1..db[2] |-> [Nid |-> 1, Ord |-> 0, Did |-> 1]]
          /\ dbTables \in IF db = <<1, 1>> /\ Holds(archive, EDb) THEN TableSets
                          ELSE {AllTables}
    /\ notes = TheNotes
    /\ RunInit
    /\ TimeOff

\* a well-formed package, any card relation, with and without a title
InitResolve ==
    /\ archive = <<EMedia, EDb, EFile0>>
    /\ manifest = Json(<<"0">> :> <<"a.png">>)
    /\ conf \in [Input : {"deck.apkg"}, Output : {<<"out">>}, Title : Titles,
                 Description : {""}]
    /\ cols = <<TheCollection>>
    /\ notes = TheNotes
    /\ cards \in SeqsUpTo(CardRows, MaxCards)
    /\ dbTables = AllTables
    /\ RunInit
    /\ TimeOff

\* a well-formed package whose collection row holds any pair of blobs
InitParse ==
    /\ archive = <<EMedia, EDb, EFile0>>
    /\ manifest = Json(<<"0">> :> <<"a.png">>)
    /\ conf \in [Input : {"deck.apkg"}, Output : {<<"out">>}, Title : Titles,
                 Description : {""}]
    /\ cols \in {<<c>> : c \in Collections}
    /\ notes = TheNotes
    /\ cards = <<[Nid |-> 1, Ord |-> 0, Did |-> 1]>>
    /\ dbTables = AllTables
    /\ RunInit
    /\ TimeOff

\* a storage value handed to the codecs
InitTime ==
    /\ archive = <<>>
    /\ manifest = Json(<<>>)
    /\ conf = [Input |-> "", Output |-> <<"out">>, Title |-> "", Description |-> ""]
    /\ cols = <<>>
    /\ notes = <<>>
    /\ cards = <<>>
    /\ dbTables = AllTables
    /\ RunInit
    /\ tval \in TimeVals
    /\ stime \in PriorTimes
    /\ mstime = stime
    /\ tout = 0
    /\ tpc = "idle"

Next ==
    \/ BeginRead
    \/ ExtractEntry
    \/ ReadMedia
    \/ RenameEntry
    \/ LoadAndCheck
    \/ ParseConfig
    \/ BeginCard
    \/ SubstituteField
    \/ FinishCard
    \/ SetTitle
    \/ WriteDocument

NextTime ==
    \/ SecondsScan
    \/ SecondsTimeValue
    \/ MilliSecondsScan
    \/ MilliSecondsTimeValue

Spec == Init /\ [][Next]_vars

SpecResolve == InitResolve /\ [][Next]_vars

SpecParse == InitParse /\ [][Next]_vars

SpecTime == InitTime /\ [][NextTime]_vars

(***************************************************************************)
(* What the properties below speak of.                                     *)
(***************************************************************************)
\* an entry or original name that is absolute or begins with a
\* parent-directory segment
UnsafeName(name) == IsRooted(name) \/ (Len(name) > 0 /\ name[1] = "..")

MetaRoot == TempDir
MediaRoot == Clean(conf.Output)

\* p is a destination root, lies in one, or is a directory on the way to one
InsideRoots(p) ==
    \/ Under(p, MetaRoot) \/ Under(p, MediaRoot)
    \/ Under(MetaRoot, p) \/ Under(MediaRoot, p)

\* what the run has created
Created == {p \in DOMAIN fs : p \notin DOMAIN InitFs}

\* the manifest entries the rename loop has renamed
Renamed ==
    IF pc \in {"start", "extract"} \/ (pc = "failed" /\ err \in {"open", "nomedia", "badmanifest"})
    THEN {}
    ELSE (DOMAIN manifest.map) \ pending

\* the triples emitted so far; the i-th is the i-th card's
Emitted == 1..Len(data.Cards)
FrontOf(i) == data.Cards[i][2]
BackOf(i) == data.Cards[i][3]

Finished == pc \in {"render", "done"}

DeclaredFields(c) == DOMAIN FieldReplacements(cols[1].Models.map, CardMid(c))

HasTemplate(c) ==
    /\ HasKey(cols[1].Models.map, CardMid(c))
    /\ \E i \in 1..Len(cols[1].Models.map[KeyOf(cols[1].Models.map, CardMid(c))].tmpls) :
          cols[1].Models.map[KeyOf(cols[1].Models.map, CardMid(c))].tmpls[i].ord = c.Ord

(***************************************************************************)
(* C1.  Extraction never goes past an entry whose name is absolute or      *)
(* begins with a parent-directory segment, and nothing is ever created     *)
(* outside the metadata and media destination roots.                       *)
(***************************************************************************)
C1_ExtractionRejectsTraversal ==
    /\ pc # "start" =>
          \A i \in 1..Len(archive) : i < entryIdx => ~UnsafeName(archive[i].name)
    /\ \A p \in Created : InsideRoots(p)

(***************************************************************************)
(* C2.  The rename pass renames no manifest entry whose original name is   *)
(* absolute or begins with a parent-directory segment, and no renamed      *)
(* entry's target lies outside the media destination root.                 *)
(***************************************************************************)
C2_RenameRejectsTraversal ==
    \A k \in Renamed :
        /\ ~UnsafeName(manifest.map[k])
        /\ Under(RenameTarget(conf.Output, manifest.map[k]), MediaRoot)

(***************************************************************************)
(* C3.  An epoch integer decoded by Scan and encoded again by Value comes  *)
(* back unchanged, for SecondsTime and for MilliSecondsTime.               *)
(***************************************************************************)
C3_RoundTrip ==
    tval.kind = "int64" =>
        /\ tpc = "secondsValued" => tout = tval.v
        /\ tpc = "milliValued" => tout = tval.v

(***************************************************************************)
(* C4.  After makeQueries has succeeded the title is the caller's title    *)
(* when one was given, and the name of the last card's deck otherwise.     *)
(***************************************************************************)
C4_TitleOverride ==
    Finished =>
        data.Title = IF conf.Title # "" THEN conf.Title
                     ELSE DecksInfo(cols[1].Decks.map, cards[Len(cards)].Did)

(***************************************************************************)
(* C5.  Without a title override a resolution that runs to its end or to   *)
(* the multiple-decks error ends in that error exactly when some card's    *)
(* deck id differs from that of the card before it; with an override it    *)
(* never ends in that error.                                               *)
(***************************************************************************)
DeckChanges == \E i \in 2..Len(cards) : cards[i].Did # cards[i - 1].Did

C5_MultipleDecks ==
    /\ conf.Title = "" /\ Finished => ~DeckChanges
    /\ pc = "failed" /\ err = "multidecks" => conf.Title = "" /\ DeckChanges
    /\ conf.Title # "" => err # "multidecks"

(***************************************************************************)
(* C6.  No emitted answer still holds a FrontSide directive, whatever the  *)
(* number of fields of the card's model, and the card of note Front="Q",   *)
(* Back="A" with question "{{Front}}" and answer                           *)
(* "{{FrontSide}}<hr>{{Back}}" resolves to the answer "Q<hr>A".            *)
(***************************************************************************)
C6_FrontSideReplaced ==
    \A i \in Emitted :
        /\ ~Contains(BackOf(i), FrontSideToken)
        /\ cards[i].Nid = 1 /\ cards[i].Ord = 0 => BackOf(i) = <<"Q", "<hr>", "A">>

(***************************************************************************)
(* C7.  Field and type directives of declared fields.                      *)
(***************************************************************************)
IsBrace(x) == x = "{{" \/ x = "}}"
BraceFree(s) == \A i \in 1..Len(s) : ~IsBrace(s[i])

\* the braces of s pair up into {{...}} tokens that hold no brace
RECURSIVE BracesPairFrom(_, _, _)
BracesPairFrom(s, i, open) ==
    IF i > Len(s) THEN ~open
    ELSE IF s[i] = "{{" THEN ~open /\ BracesPairFrom(s, i + 1, TRUE)
    ELSE IF s[i] = "}}" THEN open /\ BracesPairFrom(s, i + 1, FALSE)
    ELSE BracesPairFrom(s, i + 1, open)

WellFormed(s) == BracesPairFrom(s, 1, FALSE)

\* the card's formats hold braces only as well-formed tokens, and neither its
\* model's field names nor its note's field values hold a brace
PlainCard(c) ==
    /\ WellFormed(Templates(cols[1].Models.map, CardMid(c), c.Ord)[1])
    /\ WellFormed(Templates(cols[1].Models.map, CardMid(c), c.Ord)[2])
    /\ \A n \in DeclaredFields(c) : BraceFree(n)
    /\ \A k \in 1..Len(CardFields(c)) : BraceFree(CardFields(c)[k])

NoResidual(i) ==
    \A n \in DeclaredFields(cards[i]) :
        /\ ~Contains(FrontOf(i), FieldToken(n)) /\ ~Contains(FrontOf(i), TypeToken(n))
        /\ ~Contains(BackOf(i), FieldToken(n)) /\ ~Contains(BackOf(i), TypeToken(n))

HoldsSoundSyntax(s) == \E j \in 1..Len(s) : s[j] = SoundOpen

C8_SoundRewritten ==
    \A i \in Emitted : ~HoldsSoundSyntax(FrontOf(i)) /\ ~HoldsSoundSyntax(BackOf(i))

(***************************************************************************)
(* C9.  With exactly one collection row and no card rows makeQueries never *)
(* gets past its checks, and when it has failed with the no-cards error no *)
(* triple has been appended, no document written and nothing put into the  *)
(* output directory.                                                       *)
(***************************************************************************)
C9_NoCardsBeforeOutput ==
    /\ Len(cols) = 1 /\ Len(cards) = 0 => pc \notin {"parse", "cards", "fields", "render", "done"}
    /\ pc = "failed" /\ err = "nocards" =>
          /\ data.Cards = <<>>
          /\ doc = NoDoc
          /\ \A p \in DOMAIN fs : Under(p, MediaRoot) => p = MediaRoot

(***************************************************************************)
(* C10.  No triple is emitted for a card whose note id matches no note,    *)
(* whose note's model id matches no model, or whose template ordinal is    *)
(* not in that model's template table.                                     *)
(***************************************************************************)
C10_ReferentialIntegrity ==
    \A i \in Emitted :
        /\ HasNote(notes, cards[i].Nid)
        /\ HasKey(cols[1].Models.map, CardMid(cards[i]))
        /\ HasTemplate(cards[i])

(***************************************************************************)
(* C11.  When a blob is malformed JSON, holds a key that is no integer or  *)
(* a value without an expected field, parsing ends in an error returned to *)
(* the caller: the run never gets to the cards and never ends in a panic.  *)
(***************************************************************************)
\* the blob is one of the claim's cases
BlobCorrupt(blob) ==
    \/ ~blob.ok
    \/ \E k \in DOMAIN blob.map : ~AtoiOk(k)

DeckCorrupt(d) == "name" \notin DOMAIN d

ModelCorrupt(m) ==
    \/ "css" \notin DOMAIN m \/ "flds" \notin DOMAIN m \/ "tmpls" \notin DOMAIN m
    \/ "flds" \in DOMAIN m /\ \E i \in 1..Len(m.flds) : "ord" \notin DOMAIN m.flds[i]
    \/ "tmpls" \in DOMAIN m /\ \E i \in 1..Len(m.tmpls) : "ord" \notin DOMAIN m.tmpls[i]

ConfigCorrupt(col) ==
    \/ BlobCorrupt(col.Models) \/ BlobCorrupt(col.Decks)
    \/ col.Models.ok /\ \E k \in DOMAIN col.Models.map : ModelCorrupt(col.Models.map[k])
    \/ col.Decks.ok /\ \E k \in DOMAIN col.Decks.map : DeckCorrupt(col.Decks.map[k])

C11_ParseErrorsReported ==
    Len(cols) = 1 /\ ConfigCorrupt(cols[1]) =>
        /\ pc \notin {"cards", "fields", "render", "done"}
        /\ ~(pc = "failed" /\ err = "panic")

(***************************************************************************)
(* C12.  Which storage values Scan takes.                                  *)
(***************************************************************************)
SignAtoms == {"+", "-"}
DigitAtoms == {"0", "1", "2", "3", "4", "5", "6", "7", "8", "9"}

\* an optionally signed, non-empty run of decimal digits
NumericString(str) ==
    LET body == IF Len(str) > 0 /\ str[1] \in SignAtoms THEN Tail(str) ELSE str
    IN Len(body) > 0 /\ \A i \in 1..Len(body) : body[i] \in DigitAtoms

Scanned == tpc \in {"secondsScanned", "milliScanned"}
ScanError == tpc \in {"secondsScanError", "milliScanError"}

\* the value is of one of the kinds given, or a numeric string
Accepted(val, kinds) ==
    val.kind \in kinds \/ (val.kind = "string" /\ NumericString(val.s))

\* a Scan that fails leaves both destinations as they were
ScanErrorKeeps == [][ScanError' => stime' = stime /\ mstime' = mstime]_vars

\* Scan has succeeded exactly on the values of the kinds given, and a null
\* value left the zero epoch
ScanTakes(kinds) ==
    /\ (Scanned => Accepted(tval, kinds))
    /\ (ScanError => ~Accepted(tval, kinds))
    /\ (tpc = "secondsScanned" /\ tval.kind = "nil" => stime = ZeroTime)
    /\ (tpc = "milliScanned" /\ tval.kind = "nil" => mstime = ZeroTime)

\* C12 as claimed: Scan succeeds exactly on integer, floating-point and
\* numeric-string values and on null, which decodes to the zero epoch; on
\* every other value it returns an error and leaves the timestamp unchanged.
C12_ScanAccepts == []ScanTakes({"int64", "float64", "nil"}) /\ ScanErrorKeeps

\* C12 as amended: Scan succeeds exactly on integer, floating-point,
\* numeric-string and time values and on null, which decodes to the zero
\* epoch; on every other value it returns an error and leaves the timestamp
\* unchanged.
C12_ScanAcceptsTime == []ScanTakes({"int64", "float64", "time", "nil"}) /\ ScanErrorKeeps

\* C12's cases: a null value was scanned over a non-zero timestamp
C12_Witness ==
    /\ tpc = "milliScanned" /\ tval.kind = "nil" /\ mstime = ZeroTime /\ stime # ZeroTime

(***************************************************************************)
(* C13.  The emitted triples are the cards', one each and in the cards'    *)
(* order: after a successful resolution there are as many triples as       *)
(* cards, at every state the i-th triple's stylesheet is that of the model *)
(* of the i-th card's note, and every step leaves the triples emitted      *)
(* before it in place, adding at most at the end.                          *)
(***************************************************************************)
IsPrefix(a, b) == Len(a) <= Len(b) /\ SubSeq(b, 1, Len(a)) = a

StylesheetOf(i) == data.Cards[i][1]

\* the card's note and that note's model exist
HasModel(c) ==
    /\ \E n \in 1..Len(notes) : notes[n].Id = c.Nid
    /\ \E k \in DOMAIN cols[1].Models.map : AtoiVal(k) = CardMid(c)

ModelOf(c) == cols[1].Models.map[CHOOSE k \in DOMAIN cols[1].Models.map : AtoiVal(k) = CardMid(c)]

EmissionGrows == [][IsPrefix(data.Cards, data.Cards')]_vars

C13_EmissionOrder ==
    /\ [](/\ Len(data.Cards) <= Len(cards)
          /\ (Finished => Len(data.Cards) = Len(cards))
          /\ \A i \in Emitted : HasModel(cards[i]) => StylesheetOf(i) = ModelOf(cards[i]).css)
    /\ EmissionGrows

\* C13's case: two cards of models with different stylesheets were resolved
C13_Witness ==
    /\ Finished /\ Len(cards) = 2
    /\ HasModel(cards[1]) /\ HasModel(cards[2])
    /\ StylesheetOf(1) = "css2" /\ StylesheetOf(2) = "css1"

(***************************************************************************)
(* C14.  The stages run in order, a run that has failed has written no     *)
(* document, and a written document follows the success of every stage     *)
(* before it and holds one triple per card.                                *)
(***************************************************************************)
\* the stage generateHTMLPage is in: extraction, manifest reading with media
\* renaming, database loading with card resolution, document writing, end
StageOf(p) ==
    CASE p \in {"start", "extract"} -> 1
      [] p = "rename" -> 2
      [] p \in {"parse", "cards", "fields"} -> 3
      [] p = "render" -> 4
      [] p \in {"done", "failed"} -> 5

StagesInOrder ==
    [][pc' # pc => \/ pc' = "failed" /\ pc # "done"
                   \/ pc' # "failed" /\ StageOf(pc) <= StageOf(pc')
                                     /\ StageOf(pc') <= StageOf(pc) + 1]_vars

ExtractionSucceeded == entryIdx > Len(archive)
ManifestSucceeded == manifest.ok /\ pending = {}
\* every SELECT found its table in the package's database, and the blobs parsed
LoadingSucceeded ==
    /\ \E i \in 1..Len(archive) : archive[i].name = DbName
    /\ AllTables \subseteq dbTables
    /\ Len(cols) = 1 /\ cols[1].Models.ok /\ cols[1].Decks.ok

C14_PipelineAtomic ==
    /\ [](/\ (pc = "failed" => err # NoErr /\ doc = NoDoc)
          /\ (doc # NoDoc =>
                /\ pc = "done" /\ err = NoErr
                /\ ExtractionSucceeded /\ ManifestSucceeded /\ LoadingSucceeded
                /\ Len(doc.data.Cards) = Len(cards)))
    /\ StagesInOrder

(***************************************************************************)
(* C15.  The triple emitted for a card is the one the substitution loop    *)
(* gives when it visits the model's fields in the order of their ordinals: *)
(* with the result the same in every visiting order, every run emits it.   *)
(***************************************************************************)
\* the substitution loop run over the fields names in the order of their
\* ordinals
RECURSIVE ResolveFrom(_, _, _, _)
ResolveFrom(f, names, repl, fields) ==
    IF names = {} THEN f
    ELSE LET n == CHOOSE x \in names : \A y \in names : repl[x] <= repl[y]
         IN ResolveFrom(SubstituteOne(f, n, fields[repl[n] + 1]), names \ {n}, repl, fields)

ResolvedInOrder(c) ==
    LET f == ResolveFrom(Templates(cols[1].Models.map, CardMid(c), c.Ord), DeclaredFields(c),
                         FieldReplacements(cols[1].Models.map, CardMid(c)), CardFields(c))
    IN <<RewriteSound(f[1]), RewriteSound(f[2])>>

C15_OrderIndependent ==
    \A i \in Emitted : <<FrontOf(i), BackOf(i)>> = ResolvedInOrder(cards[i])

(***************************************************************************)
(* C16.  A card whose model declares a field whose ordinal is no index of  *)
(* the note's field list is not emitted, and resolution never ends in a    *)
(* runtime panic.                                                          *)
(***************************************************************************)
\* every ordinal the card's model declares is an index of the note's fields
OrdinalsInRange(c) ==
    LET repl == FieldReplacements(cols[1].Models.map, CardMid(c))
        n == Len(CardFields(c))
    IN \A name \in DOMAIN repl : 0 <= repl[name] /\ repl[name] <= n - 1

C16_OrdinalOutOfRange ==
    /\ \A i \in Emitted : OrdinalsInRange(cards[i])
    /\ ~(pc = "failed" /\ err = "panic")

(***************************************************************************)
(* C17.  Wherever the rename pass stands, every order of visiting the     *)
(* manifest entries still to come ends it with the same result, success    *)
(* or the same error, and the same contents under the same names in the    *)
(* media destination root.                                                 *)
(***************************************************************************)
\* what the media destination root holds
MediaPart(f) == [p \in {q \in DOMAIN f : Under(q, MediaRoot)} |-> f[p]]

\* the ends of the rename pass from f over the entries pend, one for every
\* visiting order
RECURSIVE RenameOutcomes(_, _)
RenameOutcomes(f, pend) ==
    IF pend = {} THEN {[media |-> MediaPart(f), err |-> NoErr]}
    ELSE UNION { IF RenameStep(f, k).err # NoErr
                 THEN {[media |-> MediaPart(f), err |-> RenameStep(f, k).err]}
                 ELSE RenameOutcomes(RenameStep(f, k).fs, pend \ {k}) : k \in pend }

C17_RenameOrderIndependent ==
    pc = "rename" => Cardinality(RenameOutcomes(fs, pending)) = 1

====
